---- MODULE Spec2Model ----
(***************************************************************************)
(* Module-management and simulation-request service layer of the Solar     *)
(* Emulator web application (frontend/src/services/moduleService.ts).      *)
(*                                                                         *)
(* One client call is in flight at a time.  An async service function runs *)
(* synchronously up to its first await (local validation, request          *)
(* dispatch) and resumes when the transport settles; each of these         *)
(* segments is one action.                                                 *)
(*                                                                         *)
(* JavaScript values are records [k, s, n]: k is the kind of value, s the  *)
(* text of a string, n the integer part of a number.  A number of kind     *)
(* "frac" is n + f for some 0 < f < 1 (60.5 is n = 60, kind "frac").       *)
(* Texts built by the code (error messages) are sequences of tokens, so    *)
(* that String.prototype.includes is a search and not a table lookup.      *)
(***************************************************************************)
EXTENDS Integers, Sequences, FiniteSets, TLC

VARIABLES pc, op, arg, requests, response, outcome, subcalls, warned,
          mockDatabase, nextId,
          authToken,
          selectedModule, environmentalParams, isSimulating, simulationData,
          simulationError, simulations

vars == <<pc, op, arg, requests, response, outcome, subcalls, warned,
          mockDatabase, nextId, authToken,
          selectedModule, environmentalParams, isSimulating, simulationData,
          simulationError, simulations>>

\* The state of one service call
call == <<pc, op, arg, requests, response, outcome, subcalls, warned>>

\* The simulation page: its useState cells and the simulations it awaits
page == <<selectedModule, environmentalParams, isSimulating, simulationData,
          simulationError, simulations>>

\* The browser's side: the stored credential and the simulation page
browser == <<authToken, page>>

\* The server's side: the records it stores and the id it assigns next
server == <<mockDatabase, nextId>>

\* ------------------------------------------------------------------ bounds

\* How many attributes of a payload differ from the base payload.
MaxOverrides == 2
\* Longest id list handed to deleteMultipleModules.
MaxBatch == 3
\* Module ids are drawn from 1..MaxId.
MaxId == 2

\* The last id the server may assign (mockPVModuleList holds ids 1..3)
MaxNextId == 4

\* Simulations of the page awaiting their response at the same time
MaxInFlight == 2

\* --------------------------------------------------------- JavaScript values

JSUndefined == [k |-> "undefined", s |-> "", n |-> 0]
JSNull == [k |-> "null", s |-> "", n |-> 0]
JSNaN == [k |-> "nan", s |-> "", n |-> 0]
JSInfinity == [k |-> "pinf", s |-> "", n |-> 0]
JSNegInfinity == [k |-> "ninf", s |-> "", n |-> 0]
JSStr(x) == [k |-> "string", s |-> x, n |-> 0]
JSInt(x) == [k |-> "int", s |-> "", n |-> x]
JSFrac(x) == [k |-> "frac", s |-> "", n |-> x]

\* typeof v
TypeOf(v) ==
  CASE v.k = "undefined" -> "undefined"
    [] v.k = "null" -> "object"
    [] v.k = "string" -> "string"
    [] OTHER -> "number"

\* isNaN(v), used by the code on values of type number only
IsNaN(v) == v.k = "nan"

\* Number.isInteger(v): false for every non-number, NaN, the infinities
NumberIsInteger(v) == v.k = "int"

\* v < c, v > c, v <= c for a number v and an integer literal c;
\* every comparison with NaN is false
NumLt(v, c) ==
  CASE v.k = "int" -> v.n < c
    [] v.k = "frac" -> v.n < c
    [] v.k = "ninf" -> TRUE
    [] OTHER -> FALSE

\* NumGt with the upper bound excluded: v >= c
NumGt_OrEqual(v, c) ==
  CASE v.k = "int" -> v.n >= c
    [] v.k = "frac" -> v.n >= c
    [] v.k = "pinf" -> TRUE
    [] OTHER -> FALSE

NumGt(v, c) ==
  CASE v.k = "int" -> v.n > c
    [] v.k = "frac" -> v.n >= c
    [] v.k = "pinf" -> TRUE
    [] OTHER -> FALSE

\* NumLe with zero taken for positive: v < c
NumLe_Strict(v, c) ==
  CASE v.k = "int" -> v.n < c
    [] v.k = "frac" -> v.n < c
    [] v.k = "ninf" -> TRUE
    [] OTHER -> FALSE

NumLe(v, c) ==
  CASE v.k = "int" -> v.n <= c
    [] v.k = "frac" -> v.n < c
    [] v.k = "ninf" -> TRUE
    [] OTHER -> FALSE

\* ------------------------------------------------------------------- texts

RECURSIVE Join(_)
\* Array.prototype.join(', ') over a sequence of one-token texts
Join(names) ==
  IF Len(names) = 0 THEN <<>>
  ELSE IF Len(names) = 1 THEN <<names[1]>>
  ELSE <<names[1], ",">> \o Join(Tail(names))

\* String.prototype.includes
Includes(text, needle) ==
  \E i \in 1..(Len(text) - Len(needle) + 1) :
    SubSeq(text, i, i + Len(needle) - 1) = needle

\* ------------------------------------------------------------------ errors

\* A thrown value: an Error built by the service (response = FALSE) or the
\* error the transport rejects with (response = TRUE when the server answered).
\* detail is error.response.data.detail, <<>> when absent or empty.
NewError(text) ==
  [response |-> FALSE, status |-> 0, detail |-> <<>>, message |-> text]

HttpError(code, serverDetail) ==
  [response |-> TRUE, status |-> code, detail |-> serverDetail,
   message |-> <<"Request", "failed", "with", "status", "code", ToString(code)>>]

NetworkError(text) ==
  [response |-> FALSE, status |-> 0, detail |-> <<>>, message |-> text]

\* What is caught has no message property: error.message is undefined
NoMessage == JSUndefined

\* The TypeError of error.message.includes(...) when error.message is undefined
IncludesTypeError ==
  NewError(<<"Cannot", "read", "properties", "of", "undefined", "(reading", "'includes')">>)

\* ------------------------------------------------------------------- types

VALID_CELLTYPES ==
  <<"monoSi", "multiSi", "polySi", "cis", "cigs", "cdte", "amorphous">>

\* VALID_CELLTYPES.includes(v): strict equality against the seven strings
IsValidCelltype(v) ==
  /\ v.k = "string"
  /\ \E i \in 1..Len(VALID_CELLTYPES) : VALID_CELLTYPES[i] = v.s

\* The attributes of PVModuleCreate / PVModuleUpdate
Fields ==
  {"name", "voc", "isc", "vmp", "imp", "ns", "kv", "ki", "celltype", "gamma_pmp"}

\* ------------------------------------------------------------ createModule

requiredFields ==
  <<"name", "voc", "isc", "vmp", "imp", "ns", "kv", "ki", "celltype", "gamma_pmp">>

numericFields == <<"voc", "isc", "vmp", "imp", "ns", "kv", "ki", "gamma_pmp">>

positiveFields == <<"voc", "isc", "vmp", "imp">>

\* IsMissing without the comparison to the empty string
IsMissing_NoEmptyString(v) ==
  \/ v.k = "undefined"
  \/ v.k = "null"

\* moduleData[field] === undefined || === null || === ''
IsMissing(v) ==
  \/ v.k = "undefined"
  \/ v.k = "null"
  \/ (v.k = "string" /\ v.s = "")

\* typeof v !== 'number' || isNaN(v)
IsInvalidNumeric(v) == TypeOf(v) # "number" \/ IsNaN(v)

\* IsInvalidNs without the Number.isInteger test
IsInvalidNs_NoIntegerTest(v) == NumLe(v, 0)

\* !Number.isInteger(ns) || ns <= 0
IsInvalidNs(v) == ~NumberIsInteger(v) \/ NumLe(v, 0)

MissingMessage(names) == <<"Missing", "required", "fields", ":">> \o Join(names)

NumericMessage(names) == <<"Invalid", "numeric", "values", "for", ":">> \o Join(names)

PositiveMessage(names) == <<"Values", "must", "be", "positive", "for", ":">> \o Join(names)

NsMessage ==
  <<"Number", "of", "cells", "in", "series", "(ns)", "must", "be", "a",
    "positive", "integer.">>

CelltypeMessage ==
  <<"Invalid", "celltype.", "Must", "be", "one", "of", ":">> \o Join(VALID_CELLTYPES)

CreateGenericMessage ==
  <<"Failed", "to", "create", "PV", "module.", "Please", "check", "your",
    "input", "and", "try", "again.">>

\* createModuleValidate with 'ns' listed among positiveFields
createModuleValidate_NsAmongPositive(moduleData) ==
  LET missingFields == SelectSeq(requiredFields, LAMBDA f : IsMissing(moduleData[f]))
      invalidFields == SelectSeq(numericFields, LAMBDA f : IsInvalidNumeric(moduleData[f]))
      negativeFields == SelectSeq(positiveFields \o <<"ns">>,
                                  LAMBDA f : NumLe(moduleData[f], 0))
  IN  IF Len(missingFields) > 0 THEN <<NewError(MissingMessage(missingFields))>>
      ELSE IF Len(invalidFields) > 0 THEN <<NewError(NumericMessage(invalidFields))>>
      ELSE IF Len(negativeFields) > 0 THEN <<NewError(PositiveMessage(negativeFields))>>
      ELSE IF IsInvalidNs(moduleData["ns"]) THEN <<NewError(NsMessage)>>
      ELSE IF ~IsValidCelltype(moduleData["celltype"]) THEN <<NewError(CelltypeMessage)>>
      ELSE <<>>

\* The try block of createModule up to the post: <<>> when every check
\* passes, else the one Error thrown.
createModuleValidate(moduleData) ==
  LET missingFields == SelectSeq(requiredFields, LAMBDA f : IsMissing(moduleData[f]))
      invalidFields == SelectSeq(numericFields, LAMBDA f : IsInvalidNumeric(moduleData[f]))
      negativeFields == SelectSeq(positiveFields, LAMBDA f : NumLe(moduleData[f], 0))
  IN  IF Len(missingFields) > 0 THEN <<NewError(MissingMessage(missingFields))>>
      ELSE IF Len(invalidFields) > 0 THEN <<NewError(NumericMessage(invalidFields))>>
      ELSE IF Len(negativeFields) > 0 THEN <<NewError(PositiveMessage(negativeFields))>>
      ELSE IF IsInvalidNs(moduleData["ns"]) THEN <<NewError(NsMessage)>>
      ELSE IF ~IsValidCelltype(moduleData["celltype"]) THEN <<NewError(CelltypeMessage)>>
      ELSE <<>>

\* The messages the catch block of createModule re-throws as they are
createModuleIsValidationError(error) ==
  \/ Includes(error.message, <<"Missing", "required", "fields">>)
  \/ Includes(error.message, <<"Invalid", "numeric", "values">>)
  \/ Includes(error.message, <<"Values", "must", "be", "positive">>)
  \/ Includes(error.message, <<"Number", "of", "cells">>)

\* A catch block without the status 400 branch
createModuleCatch_No400(error) ==
  IF createModuleIsValidationError(error) THEN error
  ELSE NewError(CreateGenericMessage)

\* The catch block of createModule: the Error that reaches the caller
createModuleCatch(error) ==
  IF error.response /\ error.status = 400
    THEN NewError(IF error.detail # <<>> THEN error.detail ELSE <<"Bad", "request">>)
  ELSE IF error.message = NoMessage THEN IncludesTypeError
  ELSE IF createModuleIsValidationError(error) THEN error
  ELSE NewError(CreateGenericMessage)

\* ------------------------------------------------------------ updateModule

NotFoundMessage(id) == <<"PV", "module", "with", "ID", ToString(id), "not", "found.">>

UpdateGenericMessage ==
  <<"Failed", "to", "update", "PV", "module.", "Please", "try", "again.">>

\* The try block of updateModule up to the put: <<>> or the Error thrown
updateModuleValidate(updateData) ==
  LET invalidFields ==
        SelectSeq(numericFields,
                  LAMBDA f : updateData[f] # JSUndefined /\ IsInvalidNumeric(updateData[f]))
      negativeFields ==
        SelectSeq(positiveFields,
                  LAMBDA f : updateData[f] # JSUndefined /\ NumLe(updateData[f], 0))
  IN  IF Len(invalidFields) > 0 THEN <<NewError(NumericMessage(invalidFields))>>
      ELSE IF Len(negativeFields) > 0 THEN <<NewError(PositiveMessage(negativeFields))>>
      ELSE IF updateData["ns"] # JSUndefined /\ IsInvalidNs(updateData["ns"])
        THEN <<NewError(NsMessage)>>
      ELSE IF updateData["celltype"] # JSUndefined /\ ~IsValidCelltype(updateData["celltype"])
        THEN <<NewError(CelltypeMessage)>>
      ELSE <<>>

updateModuleIsValidationError(error) ==
  \/ Includes(error.message, <<"Invalid", "numeric", "values">>)
  \/ Includes(error.message, <<"Values", "must", "be", "positive">>)
  \/ Includes(error.message, <<"Number", "of", "cells">>)

\* A catch block that reports every answered failure as not found
updateModuleCatch_AlwaysNotFound(moduleId, error) ==
  IF error.response THEN NewError(NotFoundMessage(moduleId))
  ELSE IF updateModuleIsValidationError(error) THEN error
  ELSE NewError(UpdateGenericMessage)

\* The catch block of updateModule
updateModuleCatch(moduleId, error) ==
  IF error.response /\ error.status = 404 THEN NewError(NotFoundMessage(moduleId))
  ELSE IF error.response /\ error.status = 400
    THEN NewError(IF error.detail # <<>> THEN error.detail ELSE <<"Bad", "request">>)
  ELSE IF error.message = NoMessage THEN IncludesTypeError
  ELSE IF updateModuleIsValidationError(error) THEN error
  ELSE NewError(UpdateGenericMessage)

\* ------------------------------------------------------------ deleteModule

DeleteGenericMessage ==
  <<"Failed", "to", "delete", "PV", "module.", "Please", "try", "again.">>

\* The catch block of deleteModule
deleteModuleCatch(moduleId, error) ==
  IF error.response /\ error.status = 404 THEN NewError(NotFoundMessage(moduleId))
  ELSE NewError(DeleteGenericMessage)

\* ----------------------------------------------------------- getModuleById

LoadGenericMessage ==
  <<"Failed", "to", "load", "PV", "module.", "Please", "try", "again.">>

\* A catch block that reports every failure as not found
getModuleByIdCatch_AlwaysNotFound(moduleId, error) == NewError(NotFoundMessage(moduleId))

\* The catch block of getModuleById
getModuleByIdCatch(moduleId, error) ==
  IF error.response /\ error.status = 404 THEN NewError(NotFoundMessage(moduleId))
  ELSE NewError(LoadGenericMessage)

\* --------------------------------------------------------- simulateIVCurve

TempMin == -40
TempMax == 85
IrradianceMin == 0
IrradianceMax == 1500

\* In the texts below "-40C", "85C." and "W/m2." stand for the tokens the
\* code writes with a degree sign and a superscript two.
ModuleIdMessage == <<"Module", "ID", "must", "be", "a", "positive", "integer.">>

TemperatureNumberMessage == <<"Temperature", "must", "be", "a", "valid", "number.">>

TemperatureRangeMessage ==
  <<"Temperature", "must", "be", "between", "-40C", "and", "85C.">>

IrradianceNumberMessage == <<"Irradiance", "must", "be", "a", "valid", "number.">>

IrradianceRangeMessage ==
  <<"Irradiance", "must", "be", "between", "0", "and", "1500", "W/m2.">>

SimulateGenericMessage ==
  <<"Failed", "to", "generate", "IV", "curve", "simulation.", "Please", "try", "again.">>

\* The validation at the head of simulateIVCurve: <<>> or the Error thrown
simulateIVCurveValidate(module_id, temperature, irradiance) ==
  IF ~NumberIsInteger(module_id) \/ NumLe(module_id, 0)
    THEN <<NewError(ModuleIdMessage)>>
  ELSE IF temperature # JSUndefined /\ IsInvalidNumeric(temperature)
    THEN <<NewError(TemperatureNumberMessage)>>
  ELSE IF temperature # JSUndefined
          /\ (NumLt(temperature, TempMin) \/ NumGt(temperature, TempMax))
    THEN <<NewError(TemperatureRangeMessage)>>
  ELSE IF irradiance # JSUndefined /\ IsInvalidNumeric(irradiance)
    THEN <<NewError(IrradianceNumberMessage)>>
  ELSE IF irradiance # JSUndefined
          /\ (NumLt(irradiance, IrradianceMin) \/ NumGt(irradiance, IrradianceMax))
    THEN <<NewError(IrradianceRangeMessage)>>
  ELSE <<>>

\* SimulationInput with the standard test conditions filled in by the client
SimulationInput_WithDefaults(module_id, temperature, irradiance) ==
  [module_id |-> module_id,
   use_environmental_conditions |->
     (temperature # JSUndefined \/ irradiance # JSUndefined),
   temperature |-> IF temperature = JSUndefined THEN JSInt(25) ELSE temperature,
   irradiance |-> IF irradiance = JSUndefined THEN JSInt(1000) ELSE irradiance]

\* const simulationInput: SimulationInput = {...}
SimulationInput(module_id, temperature, irradiance) ==
  [module_id |-> module_id,
   use_environmental_conditions |->
     (temperature # JSUndefined \/ irradiance # JSUndefined),
   temperature |-> temperature,
   irradiance |-> irradiance]

simulateIVCurveIsValidationError(error) ==
  \/ Includes(error.message, <<"Temperature", "must", "be">>)
  \/ Includes(error.message, <<"Irradiance", "must", "be">>)
  \/ Includes(error.message, <<"Module", "ID", "must", "be">>)

\* A catch block without the status 500 branch
simulateIVCurveCatch_No500(module_id, error) ==
  IF error.response /\ error.status = 404 THEN NewError(NotFoundMessage(module_id.n))
  ELSE IF simulateIVCurveIsValidationError(error) THEN error
  ELSE NewError(SimulateGenericMessage)

\* The catch block of simulateIVCurve; module_id is a positive integer
\* whenever the transport answered, the call having been dispatched
simulateIVCurveCatch(module_id, error) ==
  IF error.response /\ error.status = 404 THEN NewError(NotFoundMessage(module_id.n))
  ELSE IF error.response /\ error.status = 500
    THEN NewError(<<"Simulation", "error", ":">>
                  \o (IF error.detail # <<>> THEN error.detail
                      ELSE <<"Simulation", "failed">>))
  ELSE IF error.message = NoMessage THEN IncludesTypeError
  ELSE IF simulateIVCurveIsValidationError(error) THEN error
  ELSE NewError(SimulateGenericMessage)

\* ------------------------------------------------------------------ inputs

\* mockPVModuleCreate of the test data: a payload every rule accepts
ValidPayload ==
  [f \in Fields |->
     CASE f = "name" -> JSStr("New Test Panel")
       [] f = "voc" -> JSInt(42)
       [] f = "isc" -> JSFrac(8)
       [] f = "vmp" -> JSInt(35)
       [] f = "imp" -> JSFrac(7)
       [] f = "ns" -> JSInt(60)
       [] f = "kv" -> JSFrac(-1)
       [] f = "ki" -> JSFrac(0)
       [] f = "celltype" -> JSStr("monoSi")
       [] OTHER -> JSFrac(-1)]

\* An update that supplies nothing
EmptyPayload == [f \in Fields |-> JSUndefined]

\* What a caller may put in an attribute (the tests pass `as any` values)
FieldValues ==
  {JSUndefined, JSNull, JSStr(""), JSStr("abc"), JSStr("cdte"), JSNaN,
   JSInt(-1), JSInt(0), JSFrac(1), JSInt(2)}

\* The sets of attributes a caller replaces: at most MaxOverrides of them
OverrideSets == {T \in SUBSET Fields : Cardinality(T) <= MaxOverrides}

\* base with the attributes of S replaced by the values o gives them
Override(base, S, o) == [f \in Fields |-> IF f \in S THEN o[f] ELSE base[f]]

ModuleIds == 1..MaxId

ModuleIdValues ==
  {JSUndefined, JSNull, JSStr("1"), JSNaN, JSInfinity, JSInt(-1), JSInt(0), JSFrac(1)}
    \cup {JSInt(i) : i \in ModuleIds}

TemperatureValues ==
  {JSUndefined, JSNull, JSStr("hot"), JSNaN, JSInfinity, JSNegInfinity,
   JSInt(TempMin - 1), JSFrac(TempMin - 1), JSInt(TempMin), JSFrac(TempMin),
   JSInt(25), JSFrac(TempMax - 1), JSInt(TempMax), JSFrac(TempMax),
   JSInt(TempMax + 1), JSInt(150)}

IrradianceValues ==
  {JSUndefined, JSNull, JSStr("sunny"), JSNaN, JSInfinity,
   JSInt(IrradianceMin - 1), JSFrac(IrradianceMin - 1), JSInt(IrradianceMin),
   JSFrac(IrradianceMin), JSInt(1000), JSInt(IrradianceMax),
   JSFrac(IrradianceMax), JSInt(IrradianceMax + 1)}

\* Every list of at most MaxBatch ids (repeats allowed)
IdLists == UNION { [1..n -> ModuleIds] : n \in 0..MaxBatch }

\* --------------------------------------------------------------- transport

Statuses == {400, 401, 404, 422, 500}

ServerDetails == {<<>>, <<"Module", "with", "this", "name", "already", "exists">>}

\* What the transport rejects with: an error status with a {detail} body,
\* or no response at all (unreachable server, 20 s timeout)
TransportFailures ==
  {HttpError(c, d) : c \in Statuses, d \in ServerDetails}
    \cup {NetworkError(<<"Network", "Error">>),
          NetworkError(<<"timeout", "of", "20000ms", "exceeded">>)}

\* response.data of a successful POST /modules or PUT /modules/{id}
ModuleResponses(body) == {[id |-> i, module |-> body] : i \in ModuleIds}

\* response.data of a successful POST /simulate_iv_curve/
SimulationResponses(body) ==
  {[module_id |-> body.module_id, mode |-> m] :
     m \in {"STC", "environmental"}}

\* response.data.detail of a successful DELETE /modules/{id}
DeleteDetails(id) == {<<"Module", ToString(id), "deleted">>, <<"Deleted">>}

Request(method, url, body) == [method |-> method, url |-> url, body |-> body]

NoBody == <<>>

\* ------------------------------------------------------------------- state

NoOutcome == [kind |-> "none", message |-> <<>>, value |-> <<>>]
Returned(v) == [kind |-> "returned", message |-> <<>>, value |-> v]
Threw(error) == [kind |-> "threw", message |-> error.message, value |-> <<>>]

Pending == [status |-> "pending", value |-> <<>>, reason |-> <<>>]
Fulfilled(v) == [status |-> "fulfilled", value |-> v, reason |-> <<>>]
Rejected(error) == [status |-> "rejected", value |-> <<>>, reason |-> error.message]

\* How the transport settled the awaited request: not yet, resolved with a
\* response (status, data), or rejected with an error
NoResponse == [kind |-> "none", status |-> 0, data |-> <<>>, error |-> NewError(<<>>)]
Resolved(status, data) ==
  [kind |-> "resolved", status |-> status, data |-> data, error |-> NewError(<<>>)]
RejectedWith(error) ==
  [kind |-> "rejected", status |-> error.status, data |-> <<>>, error |-> error]

\* A stored PVModule: the id and the ten attributes
PVModule(id, name, voc, isc, vmp, imp, ns, kv, ki, celltype, gamma_pmp) ==
  [f \in Fields \cup {"id"} |->
     CASE f = "id" -> JSInt(id)
       [] f = "name" -> JSStr(name)
       [] f = "voc" -> voc
       [] f = "isc" -> isc
       [] f = "vmp" -> vmp
       [] f = "imp" -> imp
       [] f = "ns" -> JSInt(ns)
       [] f = "kv" -> kv
       [] f = "ki" -> ki
       [] f = "celltype" -> JSStr(celltype)
       [] OTHER -> gamma_pmp]

\* mockPVModuleList of the test data, the initial content of mockDatabase
mockPVModuleList ==
  <<PVModule(1, "Test Solar Panel", JSFrac(45), JSFrac(9), JSFrac(37), JSFrac(8),
             72, JSFrac(-1), JSFrac(0), "monoSi", JSFrac(-1)),
    PVModule(2, "SunPower SPR-300", JSFrac(64), JSFrac(5), JSFrac(54), JSFrac(5),
             96, JSFrac(-1), JSFrac(0), "monoSi", JSFrac(-1)),
    PVModule(3, "Canadian Solar CS6K-280M", JSFrac(39), JSFrac(9), JSFrac(31), JSFrac(8),
             60, JSFrac(-1), JSFrac(0), "multiSi", JSFrac(-1))>>

\* No call in progress
Idle ==
  /\ pc = "idle"
  /\ op = "none"
  /\ arg = <<>>
  /\ requests = <<>>
  /\ response = NoResponse
  /\ outcome = NoOutcome
  /\ subcalls = <<>>
  /\ warned = <<>>

\* No call is in progress: the caller may make the next one
Callable == pc \in {"idle", "done"}

\* localStorage holds no 'authToken': getItem returns null
NoCredential == JSNull

\* The simulation page as mounted: the initial values of its useState cells
PageMounted ==
  /\ selectedModule = JSNull
  /\ environmentalParams = [temperature |-> JSInt(25), irradiance |-> JSInt(1000)]
  /\ isSimulating = FALSE
  /\ simulationData = JSNull
  /\ simulationError = JSNull
  /\ simulations = <<>>

Init ==
  /\ Idle
  /\ mockDatabase = mockPVModuleList
  /\ nextId = 4
  /\ authToken = NoCredential
  /\ PageMounted

\* ------------------------------------------------------------ mock server

\* The limit GET /modules applies when the query has none
DefaultLimit == 100

\* String.prototype.toLowerCase over the names in use; a name without an
\* upper-case letter is its own lower-case form
ToLowerCase(str) ==
  CASE str = "Test Solar Panel" -> "test solar panel"
    [] str = "TEST SOLAR PANEL" -> "test solar panel"
    [] str = "SunPower SPR-300" -> "sunpower spr-300"
    [] str = "Canadian Solar CS6K-280M" -> "canadian solar cs6k-280m"
    [] str = "New Test Panel" -> "new test panel"
    [] OTHER -> str

\* if (v): JavaScript truthiness
Truthy(v) ==
  CASE v.k \in {"undefined", "null", "nan"} -> FALSE
    [] v.k = "string" -> v.s # ""
    [] v.k = "int" -> v.n # 0
    [] OTHER -> TRUE

\* JSON.stringify followed by request.json(): a non-finite number arrives as
\* null, an undefined attribute does not arrive (stays undefined)
JSONValue(v) == IF v.k \in {"nan", "pinf", "ninf"} THEN JSNull ELSE v

JSONBody(body) == [f \in DOMAIN body |-> JSONValue(body[f])]

\* modules.find / modules.some with the predicate
\* m.name.toLowerCase() === name.toLowerCase() && m.id !== excludeId, which
\* stops at the first record that matches or on which toLowerCase is called
\* on a non-string: "found", "none" or "throws"
FindName(modules, name, excludeId) ==
  LET Throws(i) == modules[i]["name"].k # "string" \/ name.k # "string"
      Matches(i) == /\ ToLowerCase(modules[i]["name"].s) = ToLowerCase(name.s)
                    /\ modules[i]["id"] # excludeId
      stops == {i \in 1..Len(modules) : Throws(i) \/ Matches(i)}
      first == CHOOSE i \in stops : \A j \in stops : i <= j
  IN  IF stops = {} THEN "none"
      ELSE IF Throws(first) THEN "throws"
      ELSE "found"

\* mockDatabase.findIndex(m => m.id === id), 0 when there is none
FindIndex(modules, id) ==
  IF \E i \in 1..Len(modules) : modules[i]["id"] = JSInt(id)
    THEN CHOOSE i \in 1..Len(modules) :
           /\ modules[i]["id"] = JSInt(id)
           /\ \A j \in 1..(i - 1) : modules[j]["id"] # JSInt(id)
    ELSE 0

\* What a handler does: how the request settles and what the store becomes
Served(settlement, db, nid) == [settlement |-> settlement, db |-> db, nextId |-> nid]

DuplicateNameDetail == <<"Module", "with", "this", "name", "already", "exists">>

ModuleNotFoundDetail == <<"Module", "not", "found">>

\* A handler that throws is answered with status 500
HandlerException == HttpError(500, <<>>)

\* parseInt(url.searchParams.get(key) || dflt) for a query value that is
\* absent or a non-negative integer
QueryInt(v, dflt) == IF v = JSUndefined THEN dflt ELSE v.n

\* GET /modules
GetModules(db, nid, query) ==
  LET skip == QueryInt(query.skip, 0)
      limit == QueryInt(query.limit, DefaultLimit)
      last == IF skip + limit < Len(db) THEN skip + limit ELSE Len(db)
  IN  Served(Resolved(200, SubSeq(db, skip + 1, last)), db, nid)

\* GET /modules/{id}
GetModule(db, nid, id) ==
  LET moduleIndex == FindIndex(db, id)
  IN  IF moduleIndex = 0
        THEN Served(RejectedWith(HttpError(404, ModuleNotFoundDetail)), db, nid)
      ELSE Served(Resolved(200, db[moduleIndex]), db, nid)

\* A POST handler that numbers the new record by the size of the store
PostModules_IdFromLength(db, nid, body) ==
  LET moduleData == JSONBody(body)
      existingModule == FindName(db, moduleData["name"], JSUndefined)
      newModule == [f \in Fields \cup {"id"} |->
                      IF f = "id" THEN JSInt(Len(db) + 1) ELSE moduleData[f]]
  IN  IF existingModule = "throws" THEN Served(RejectedWith(HandlerException), db, nid)
      ELSE IF existingModule = "found"
        THEN Served(RejectedWith(HttpError(400, DuplicateNameDetail)), db, nid)
      ELSE Served(Resolved(201, newModule), Append(db, newModule), nid + 1)

\* POST /modules
PostModules(db, nid, body) ==
  LET moduleData == JSONBody(body)
      existingModule == FindName(db, moduleData["name"], JSUndefined)
      newModule == [f \in Fields \cup {"id"} |->
                      IF f = "id" THEN JSInt(nid) ELSE moduleData[f]]
  IN  IF existingModule = "throws" THEN Served(RejectedWith(HandlerException), db, nid)
      ELSE IF existingModule = "found"
        THEN Served(RejectedWith(HttpError(400, DuplicateNameDetail)), db, nid)
      ELSE Served(Resolved(201, newModule), Append(db, newModule), nid + 1)

\* A PUT handler that stores the body in place of the record
PutModule_Replace(db, nid, id, body) ==
  LET updateData == JSONBody(body)
      moduleIndex == FindIndex(db, id)
      updatedModule ==
        [f \in Fields \cup {"id"} |-> IF f # "id" THEN updateData[f] ELSE db[moduleIndex][f]]
  IN  IF moduleIndex = 0
        THEN Served(RejectedWith(HttpError(404, ModuleNotFoundDetail)), db, nid)
      ELSE Served(Resolved(200, updatedModule),
                  [db EXCEPT ![moduleIndex] = updatedModule], nid)

\* PUT /modules/{id}
PutModule(db, nid, id, body) ==
  LET updateData == JSONBody(body)
      moduleIndex == FindIndex(db, id)
      existingModule ==
        IF Truthy(updateData["name"])
          THEN FindName(db, updateData["name"], JSInt(id)) ELSE "none"
      updatedModule ==
        [f \in Fields \cup {"id"} |->
           IF f # "id" /\ updateData[f] # JSUndefined THEN updateData[f]
           ELSE db[moduleIndex][f]]
  IN  IF moduleIndex = 0
        THEN Served(RejectedWith(HttpError(404, ModuleNotFoundDetail)), db, nid)
      ELSE IF existingModule = "throws"
        THEN Served(RejectedWith(HandlerException), db, nid)
      ELSE IF existingModule = "found"
        THEN Served(RejectedWith(HttpError(400, DuplicateNameDetail)), db, nid)
      ELSE Served(Resolved(200, updatedModule),
                  [db EXCEPT ![moduleIndex] = updatedModule], nid)

\* A DELETE handler that confirms and leaves the record in the store
DeleteModuleById_KeepsRecord(db, nid, id) ==
  LET moduleIndex == FindIndex(db, id)
  IN  IF moduleIndex = 0
        THEN Served(RejectedWith(HttpError(404, ModuleNotFoundDetail)), db, nid)
      ELSE Served(Resolved(200, [detail |-> <<"Module", ToString(id), "deleted">>]), db, nid)

\* DELETE /modules/{id}
DeleteModuleById(db, nid, id) ==
  LET moduleIndex == FindIndex(db, id)
  IN  IF moduleIndex = 0
        THEN Served(RejectedWith(HttpError(404, ModuleNotFoundDetail)), db, nid)
      ELSE Served(Resolved(200, [detail |-> <<"Module", ToString(id), "deleted">>]),
                  SubSeq(db, 1, moduleIndex - 1) \o SubSeq(db, moduleIndex + 1, Len(db)),
                  nid)

\* ------------------------------------------------- getAllModules, name check

ListGenericMessage ==
  <<"Failed", "to", "load", "PV", "modules.", "Please", "try", "again.">>

\* No pagination parameters
NoParams == [skip |-> JSUndefined, limit |-> JSUndefined]

\* A getAllModules that copies a parameter only when it is truthy
getAllModulesRequest_Truthy(params) ==
  [method |-> "GET", url |-> <<"/modules">>, body |-> NoBody,
   params |-> [skip |-> IF Truthy(params.skip) THEN params.skip ELSE JSUndefined,
               limit |-> IF Truthy(params.limit) THEN params.limit ELSE JSUndefined]]

\* The get of getAllModules: queryParams holds what params supplies
getAllModulesRequest(params) ==
  [method |-> "GET", url |-> <<"/modules">>, body |-> NoBody,
   params |-> [skip |-> params.skip, limit |-> params.limit]]

\* getAllModules after its await: <<response.data>> or the Error it throws
getAllModulesResult(settlement) ==
  IF settlement.kind = "resolved" THEN [threw |-> FALSE, value |-> settlement.data,
                                        error |-> NewError(<<>>)]
  ELSE [threw |-> TRUE, value |-> <<>>, error |-> NewError(ListGenericMessage)]

\* A catch block that passes the failure on to the caller
checkModuleNameExistsCatch_Rethrow(error) == Threw(error)

\* The catch block of checkModuleNameExists
checkModuleNameExistsCatch(error) == Returned(FALSE)

\* checkModuleNameExists after await getAllModules()
checkModuleNameExistsResult(name, excludeId, listing) ==
  IF listing.threw THEN checkModuleNameExistsCatch(listing.error)
  ELSE LET some == FindName(listing.value, name, excludeId)
       IN  IF some = "throws"
             THEN checkModuleNameExistsCatch(NewError(<<"TypeError">>))
           ELSE Returned(some = "found")

\* --------------------------------------------------- deleteMultipleModules

\* moduleIds.map(id => deleteModule(id)): each deleteModule runs up to its
\* await, so one DELETE per element is handed to the transport, in order
deleteRequests(moduleIds) ==
  [i \in 1..Len(moduleIds) |->
     Request("DELETE", <<"/modules/", ToString(moduleIds[i])>>, NoBody)]

\* Promise.all in place of Promise.allSettled: settles on the first rejection
AllSettled_FailFast(promises) ==
  \/ \A i \in 1..Len(promises) : promises[i].status = "fulfilled"
  \/ \E i \in 1..Len(promises) : promises[i].status = "rejected"

\* Promise.allSettled(deletePromises) resolves once no promise is pending
AllSettled(promises) ==
  \A i \in 1..Len(promises) : promises[i].status # "pending"

RECURSIVE successResultsOf_StopAtFailure(_)
\* successResultsOf leaving the loop at the first rejected result
successResultsOf_StopAtFailure(results) ==
  IF Len(results) = 0 THEN <<>>
  ELSE IF Head(results).status # "fulfilled" THEN <<>>
  ELSE <<Head(results).value>> \o successResultsOf_StopAtFailure(Tail(results))

RECURSIVE successResultsOf(_)
\* results.forEach: successResults.push(result.value) for the fulfilled
successResultsOf(results) ==
  IF Len(results) = 0 THEN <<>>
  ELSE (IF Head(results).status = "fulfilled" THEN <<Head(results).value>> ELSE <<>>)
         \o successResultsOf(Tail(results))

RECURSIVE errorsFrom(_, _, _)
\* results.forEach: errors.push(`Module ${moduleIds[index]}: ${reason.message}`)
errorsFrom(moduleIds, results, index) ==
  IF index > Len(results) THEN <<>>
  ELSE (IF results[index].status = "fulfilled" THEN <<>>
        ELSE << <<"Module", ToString(moduleIds[index]), ":">> \o results[index].reason >>)
         \o errorsFrom(moduleIds, results, index + 1)

\* deleteMultipleModulesResult raising when nothing was deleted
deleteMultipleModulesResult_NothingDeletedThrows(moduleIds, results) ==
  IF Len(successResultsOf(results)) = 0
    THEN Threw(NewError(<<"Failed", "to", "delete", "PV", "modules.", "Please",
                          "try", "again.">>))
    ELSE Returned(successResultsOf(results))

\* What deleteMultipleModules settles with once allSettled has resolved
deleteMultipleModulesResult(moduleIds, results) ==
  Returned(successResultsOf(results))

\* ----------------------------------------------------------------- actions

\* createModule(moduleData), up to the await of the post
createModuleCall(moduleData) ==
  LET thrown == createModuleValidate(moduleData)
  IN  /\ arg' = moduleData
      /\ IF thrown # <<>>
           THEN /\ pc' = "done"
                /\ requests' = <<>>
                /\ outcome' = Threw(createModuleCatch(thrown[1]))
           ELSE /\ pc' = "awaiting"
                /\ requests' = <<Request("POST", <<"/modules">>, moduleData)>>
                /\ outcome' = NoOutcome
      /\ op' = "createModule"
      /\ response' = NoResponse
      /\ subcalls' = <<>>
      /\ UNCHANGED warned

\* createModule resumes after the await: settlement is what the post did
createModuleResume(settlement) ==
  /\ response' = settlement
  /\ outcome' = (IF settlement.kind = "resolved" THEN Returned(settlement.data)
                 ELSE Threw(createModuleCatch(settlement.error)))
  /\ pc' = "done"
  /\ UNCHANGED <<op, arg, requests, subcalls, warned>>

\* createModule called with any payload
createModule ==
  /\ pc = "idle"
  /\ \E S \in OverrideSets : \E o \in [S -> FieldValues] :
       createModuleCall(Override(ValidPayload, S, o))
  /\ UNCHANGED server
  /\ UNCHANGED browser

\* createModule resumes: the post resolved, or rejected into the catch block
createModuleSettled ==
  /\ pc = "awaiting"
  /\ op = "createModule"
  /\ \/ \E data \in ModuleResponses(arg) : createModuleResume(Resolved(201, data))
     \/ \E error \in TransportFailures : createModuleResume(RejectedWith(error))
  /\ UNCHANGED server
  /\ UNCHANGED browser

\* updateModule(moduleId, updateData), up to the await of the put
updateModuleCall(moduleId, updateData) ==
  LET thrown == updateModuleValidate(updateData)
  IN  /\ arg' = [moduleId |-> moduleId, updateData |-> updateData]
      /\ IF thrown # <<>>
           THEN /\ pc' = "done"
                /\ requests' = <<>>
                /\ outcome' = Threw(updateModuleCatch(moduleId, thrown[1]))
           ELSE /\ pc' = "awaiting"
                /\ requests' =
                     <<Request("PUT", <<"/modules/", ToString(moduleId)>>, updateData)>>
                /\ outcome' = NoOutcome
      /\ op' = "updateModule"
      /\ response' = NoResponse
      /\ subcalls' = <<>>
      /\ UNCHANGED warned

\* updateModule resumes after the await: settlement is what the put did
updateModuleResume(settlement) ==
  /\ response' = settlement
  /\ outcome' = (IF settlement.kind = "resolved" THEN Returned(settlement.data)
                 ELSE Threw(updateModuleCatch(arg.moduleId, settlement.error)))
  /\ pc' = "done"
  /\ UNCHANGED <<op, arg, requests, subcalls, warned>>

getModuleByIdCall(moduleId) ==
  /\ arg' = moduleId
  /\ requests' = <<Request("GET", <<"/modules/", ToString(moduleId)>>, NoBody)>>
  /\ op' = "getModuleById"
  /\ pc' = "awaiting"
  /\ response' = NoResponse
  /\ outcome' = NoOutcome
  /\ subcalls' = <<>>
  /\ UNCHANGED warned

\* getModuleById resumes after the await: settlement is what the get did
getModuleByIdResume(settlement) ==
  /\ response' = settlement
  /\ outcome' = (IF settlement.kind = "resolved" THEN Returned(settlement.data)
                 ELSE Threw(getModuleByIdCatch(arg, settlement.error)))
  /\ pc' = "done"
  /\ UNCHANGED <<op, arg, requests, subcalls, warned>>

deleteModuleCall(moduleId) ==
  /\ arg' = moduleId
  /\ requests' = <<Request("DELETE", <<"/modules/", ToString(moduleId)>>, NoBody)>>
  /\ op' = "deleteModule"
  /\ pc' = "awaiting"
  /\ response' = NoResponse
  /\ outcome' = NoOutcome
  /\ subcalls' = <<>>
  /\ UNCHANGED warned

\* deleteModule resumes after the await: settlement is what the delete did
deleteModuleResume(settlement) ==
  /\ response' = settlement
  /\ outcome' = (IF settlement.kind = "resolved" THEN Returned(settlement.data.detail)
                 ELSE Threw(deleteModuleCatch(arg, settlement.error)))
  /\ pc' = "done"
  /\ UNCHANGED <<op, arg, requests, subcalls, warned>>

\* updateModule called with any id and partial payload
updateModule ==
  /\ pc = "idle"
  /\ \E moduleId \in ModuleIds, S \in OverrideSets : \E o \in [S -> FieldValues] :
       updateModuleCall(moduleId, Override(EmptyPayload, S, o))
  /\ UNCHANGED server
  /\ UNCHANGED browser

updateModuleSettled ==
  /\ pc = "awaiting"
  /\ op = "updateModule"
  /\ \/ \E data \in ModuleResponses(arg.updateData) : updateModuleResume(Resolved(200, data))
     \/ \E error \in TransportFailures : updateModuleResume(RejectedWith(error))
  /\ UNCHANGED server
  /\ UNCHANGED browser

\* simulateIVCurve({module_id, temperature, irradiance}), up to the await
simulateIVCurve ==
  /\ pc = "idle"
  /\ \E module_id \in ModuleIdValues, temperature \in TemperatureValues,
        irradiance \in IrradianceValues :
       LET thrown == simulateIVCurveValidate(module_id, temperature, irradiance)
       IN  /\ arg' = [module_id |-> module_id, temperature |-> temperature,
                      irradiance |-> irradiance]
           /\ IF thrown # <<>>
                THEN /\ pc' = "done"
                     /\ requests' = <<>>
                     /\ outcome' = Threw(simulateIVCurveCatch(module_id, thrown[1]))
                ELSE /\ pc' = "awaiting"
                     /\ requests' =
                          <<Request("POST", <<"/simulate_iv_curve/">>,
                                    SimulationInput(module_id, temperature, irradiance))>>
                     /\ outcome' = NoOutcome
  /\ op' = "simulateIVCurve"
  /\ response' = NoResponse
  /\ UNCHANGED <<subcalls, warned, server>>
  /\ UNCHANGED browser

\* A resumption that posts once more when the first post was rejected
simulateIVCurveResume_Retry(settlement) ==
  IF settlement.kind = "rejected" /\ Len(requests) = 1
    THEN /\ requests' = Append(requests, requests[1])
         /\ UNCHANGED <<pc, op, arg, response, outcome, subcalls, warned>>
    ELSE /\ response' = settlement
         /\ outcome' = (IF settlement.kind = "resolved" THEN Returned(settlement.data)
                        ELSE Threw(simulateIVCurveCatch(arg.module_id, settlement.error)))
         /\ pc' = "done"
         /\ UNCHANGED <<op, arg, requests, subcalls, warned>>

\* simulateIVCurve resumes after the await: settlement is what the post did
simulateIVCurveResume(settlement) ==
  /\ response' = settlement
  /\ outcome' = (IF settlement.kind = "resolved" THEN Returned(settlement.data)
                 ELSE Threw(simulateIVCurveCatch(arg.module_id, settlement.error)))
  /\ pc' = "done"
  /\ UNCHANGED <<op, arg, requests, subcalls, warned>>

simulateIVCurveSettled ==
  /\ pc = "awaiting"
  /\ op = "simulateIVCurve"
  /\ \/ \E data \in SimulationResponses(requests[1].body) :
          simulateIVCurveResume(Resolved(200, data))
     \/ \E error \in TransportFailures : simulateIVCurveResume(RejectedWith(error))
  /\ UNCHANGED server
  /\ UNCHANGED browser

\* deleteMultipleModules(moduleIds), up to the await of Promise.allSettled
deleteMultipleModulesCall(moduleIds) ==
  /\ arg' = moduleIds
  /\ requests' = deleteRequests(moduleIds)
  /\ subcalls' = [i \in 1..Len(moduleIds) |-> Pending]
  /\ op' = "deleteMultipleModules"
  /\ pc' = "awaiting"
  /\ response' = NoResponse
  /\ outcome' = NoOutcome
  /\ UNCHANGED warned

\* deleteMultipleModules called with any list of ids
deleteMultipleModules ==
  /\ pc = "idle"
  /\ \E moduleIds \in IdLists : deleteMultipleModulesCall(moduleIds)
  /\ UNCHANGED server
  /\ UNCHANGED browser

\* One deleteModule of the batch resumes: its del resolved or rejected
\* deleteModule(moduleId) after its await: what its promise settles with
deleteModuleResult(moduleId, settlement) ==
  IF settlement.kind = "resolved" THEN Fulfilled(settlement.data.detail)
  ELSE Rejected(deleteModuleCatch(moduleId, settlement.error))

deleteModuleSettled ==
  /\ op = "deleteMultipleModules"
  /\ \E i \in 1..Len(subcalls) :
       /\ subcalls[i].status = "pending"
       /\ \/ \E detail \in DeleteDetails(arg[i]) :
               subcalls' = [subcalls EXCEPT
                              ![i] = deleteModuleResult(arg[i], Resolved(200, [detail |-> detail]))]
          \/ \E error \in TransportFailures :
               subcalls' = [subcalls EXCEPT
                              ![i] = deleteModuleResult(arg[i], RejectedWith(error))]
  /\ UNCHANGED <<pc, op, arg, requests, response, outcome, warned, server>>
  /\ UNCHANGED browser

\* deleteMultipleModules resumes: allSettled resolved
\* (for a list of ids nothing in its try block throws: allSettled never
\* rejects and every rejection reason is an Error built by deleteModule, so
\* the catch block at lines 216-219 is not entered)
deleteMultipleModulesSettled ==
  /\ pc = "awaiting"
  /\ op = "deleteMultipleModules"
  /\ AllSettled(subcalls)
  /\ outcome' = deleteMultipleModulesResult(arg, subcalls)
  /\ warned' = (IF Len(errorsFrom(arg, subcalls, 1)) > 0
                  THEN errorsFrom(arg, subcalls, 1) ELSE warned)
  /\ pc' = "done"
  /\ UNCHANGED <<op, arg, requests, response, subcalls, server>>
  /\ UNCHANGED browser

Next ==
  \/ createModule
  \/ createModuleSettled
  \/ updateModule
  \/ updateModuleSettled
  \/ simulateIVCurve
  \/ simulateIVCurveSettled
  \/ deleteMultipleModules
  \/ deleteModuleSettled
  \/ deleteMultipleModulesSettled

Spec == Init /\ [][Next]_vars

\* One simulateIVCurve call. The transport settles every request: it answers,
\* fails, or gives up after its timeout of 20000 ms.
NextSim ==
  \/ simulateIVCurve
  \/ simulateIVCurveSettled

SimSpec == Init /\ [][NextSim]_vars /\ WF_vars(simulateIVCurveSettled)

\* ------------------------------------------- name checks against the server

\* A record a caller created under the name ToString(id)
CreatedModule(id) ==
  PVModule(id, ToString(id), JSInt(42), JSFrac(8), JSInt(35), JSFrac(7),
           60, JSFrac(-1), JSFrac(0), "monoSi", JSFrac(-1))

\* The store after records 4..n were created (n >= 3), or with only the
\* first n records of mockPVModuleList left (n < 3)
Store(n) ==
  [i \in 1..n |-> IF i <= Len(mockPVModuleList) THEN mockPVModuleList[i]
                  ELSE CreatedModule(i)]

StoreSizes == {0, 1, Len(mockPVModuleList), DefaultLimit, DefaultLimit + 1}

NameQueries ==
  {JSStr("Test Solar Panel"), JSStr("TEST SOLAR PANEL"), JSStr("absent"),
   JSStr(ToString(DefaultLimit)), JSStr(ToString(DefaultLimit + 1))}

ExcludeIds == {JSUndefined} \cup {JSInt(i) : i \in ModuleIds}

InitNames ==
  /\ Idle
  /\ \E n \in StoreSizes :
       /\ mockDatabase = Store(n)
       /\ nextId = (IF n < 4 THEN 4 ELSE n + 1)
  /\ authToken = NoCredential
  /\ PageMounted

checkModuleNameExists ==
  /\ pc = "idle"
  /\ \E name \in NameQueries, excludeId \in ExcludeIds :
       arg' = [name |-> name, excludeId |-> excludeId]
  /\ requests' = <<getAllModulesRequest(NoParams)>>
  /\ op' = "checkModuleNameExists"
  /\ pc' = "awaiting"
  /\ UNCHANGED <<response, outcome, subcalls, warned, server>>
  /\ UNCHANGED browser

\* checkModuleNameExists resumes after await getAllModules()
checkModuleNameExistsResume(settlement) ==
  /\ response' = settlement
  /\ outcome' = checkModuleNameExistsResult(arg.name, arg.excludeId,
                                            getAllModulesResult(settlement))
  /\ pc' = "done"
  /\ UNCHANGED <<op, arg, requests, subcalls, warned>>

\* The server answers the listing
GetModulesServed ==
  /\ pc = "awaiting"
  /\ op = "checkModuleNameExists"
  /\ LET served == GetModules(mockDatabase, nextId, requests[1].params)
     IN  /\ checkModuleNameExistsResume(served.settlement)
         /\ mockDatabase' = served.db
         /\ nextId' = served.nextId
  /\ UNCHANGED browser

\* The listing fails in the transport
GetModulesFailed ==
  /\ pc = "awaiting"
  /\ op = "checkModuleNameExists"
  /\ \E error \in TransportFailures : checkModuleNameExistsResume(RejectedWith(error))
  /\ UNCHANGED server
  /\ UNCHANGED browser

NextNames ==
  \/ checkModuleNameExists
  \/ GetModulesServed
  \/ GetModulesFailed

NameSpec == InitNames /\ [][NextNames]_vars

\* ------------------------------------------------------------ getAllModules

\* Pagination parameters a caller may supply
ListParams ==
  [skip : {JSUndefined, JSInt(0), JSInt(1)}, limit : {JSUndefined, JSInt(0), JSInt(2)}]

\* getAllModules called with any pagination parameters
getAllModules ==
  /\ Callable
  /\ \E params \in ListParams :
       /\ arg' = params
       /\ requests' = <<getAllModulesRequest(params)>>
  /\ op' = "getAllModules"
  /\ pc' = "awaiting"
  /\ response' = NoResponse
  /\ outcome' = NoOutcome
  /\ UNCHANGED <<subcalls, warned, server>>
  /\ UNCHANGED browser

\* getAllModules resumes after the await
getAllModulesResume(settlement) ==
  /\ response' = settlement
  /\ outcome' = (LET result == getAllModulesResult(settlement)
                 IN  IF result.threw THEN Threw(result.error) ELSE Returned(result.value))
  /\ pc' = "done"
  /\ UNCHANGED <<op, arg, requests, subcalls, warned>>

\* The server answers the listing of getAllModules
getAllModulesServed ==
  /\ pc = "awaiting"
  /\ op = "getAllModules"
  /\ LET served == GetModules(mockDatabase, nextId, requests[1].params)
     IN  /\ getAllModulesResume(served.settlement)
         /\ mockDatabase' = served.db
         /\ nextId' = served.nextId
  /\ UNCHANGED browser

\* The listing of getAllModules fails in the transport
getAllModulesFailed ==
  /\ pc = "awaiting"
  /\ op = "getAllModules"
  /\ \E error \in TransportFailures : getAllModulesResume(RejectedWith(error))
  /\ UNCHANGED server
  /\ UNCHANGED browser

NextList ==
  \/ getAllModules
  \/ getAllModulesServed
  \/ getAllModulesFailed

ListSpec == Init /\ [][NextList]_vars

\* -------------------------------------------------- the transport adapter

\* No Authorization header
NoHeader == <<>>

\* What localStorage may hold under 'authToken'
StoredTokens == {NoCredential, JSStr(""), JSStr("test-jwt-token")}

ApiMethods == {"GET", "POST", "PUT", "DELETE", "PATCH"}

\* A request interceptor that always writes the header
requestInterceptor_AlwaysBearer(config, token) ==
  [config EXCEPT !.headers.Authorization = <<"Bearer", token.s>>]

\* The request interceptor: config with the header when the token is truthy
requestInterceptor(config, token) ==
  IF Truthy(token)
    THEN [config EXCEPT !.headers.Authorization = <<"Bearer", token.s>>]
    ELSE config

\* A response interceptor that clears the token on every answered failure
tokenAfterRejection_AnyStatus(error, token) ==
  IF error.response THEN NoCredential ELSE token

\* The response interceptor's error handler: what localStorage holds after it
tokenAfterRejection(error, token) ==
  IF error.response /\ error.status = 401 THEN NoCredential ELSE token

\* The config the helpers get / post / put / delete / patch hand to axios
ApiConfig(method, url) ==
  [method |-> method, url |-> url, body |-> NoBody,
   headers |-> [ContentType |-> "application/json", Authorization |-> NoHeader]]

\* A helper is called: the request interceptor runs and the request leaves
apiRequest ==
  /\ Callable
  /\ \E method \in ApiMethods :
       /\ arg' = method
       /\ requests' = <<requestInterceptor(ApiConfig(method, <<"/test">>), authToken)>>
  /\ op' = "api"
  /\ pc' = "awaiting"
  /\ response' = NoResponse
  /\ outcome' = NoOutcome
  /\ UNCHANGED <<subcalls, warned, server, authToken, page>>

\* The response interceptor passes the response on
apiResponded ==
  /\ pc = "awaiting"
  /\ op = "api"
  /\ response' = Resolved(200, [data |-> "success"])
  /\ outcome' = Returned(response')
  /\ pc' = "done"
  /\ UNCHANGED <<op, arg, requests, subcalls, warned, server, authToken, page>>

\* The response interceptor's error handler: 401 clears the token, the
\* error is rejected again
apiRejected ==
  /\ pc = "awaiting"
  /\ op = "api"
  /\ \E error \in TransportFailures :
       /\ response' = RejectedWith(error)
       /\ authToken' = tokenAfterRejection(error, authToken)
       /\ outcome' = Threw(error)
  /\ pc' = "done"
  /\ UNCHANGED <<op, arg, requests, subcalls, warned, server, page>>

InitApi ==
  /\ Idle
  /\ mockDatabase = mockPVModuleList
  /\ nextId = 4
  /\ authToken \in StoredTokens
  /\ PageMounted

NextApi ==
  \/ apiRequest
  \/ apiResponded
  \/ apiRejected

ApiSpec == InitApi /\ [][NextApi]_vars

\* ------------------------------------------- calls served by the mock server

\* What the callers of this specification put in name and voc
StoreCreateNames == {JSStr("New Test Panel"), JSStr("TEST SOLAR PANEL")}

StoreCreateVocs == {JSInt(42), JSInfinity}

StoreUpdateNames == {JSUndefined, JSStr(""), JSStr("TEST SOLAR PANEL")}

StoreUpdateVocs == {JSUndefined, JSInfinity, JSInt(50)}

\* The records the callers of this specification update
StoreUpdateIds == {1, 2}

\* The ids the server may hold
StoreIds == 1..MaxNextId

\* The lists handed to deleteMultipleModules: one id, two ids, one id twice
StoreIdLists == {<<1>>, <<2, 1>>, <<3, 3>>}

StoreCreateModule ==
  /\ Callable
  /\ nextId <= MaxNextId
  /\ \E name \in StoreCreateNames, voc \in StoreCreateVocs :
       createModuleCall([ValidPayload EXCEPT !["name"] = name, !["voc"] = voc])
  /\ UNCHANGED server
  /\ UNCHANGED browser

PostModulesServed ==
  /\ pc = "awaiting"
  /\ op = "createModule"
  /\ LET served == PostModules(mockDatabase, nextId, requests[1].body)
     IN  /\ createModuleResume(served.settlement)
         /\ mockDatabase' = served.db
         /\ nextId' = served.nextId
  /\ UNCHANGED browser

StoreUpdateModule ==
  /\ Callable
  /\ \E moduleId \in StoreUpdateIds, name \in StoreUpdateNames, voc \in StoreUpdateVocs :
       updateModuleCall(moduleId, [EmptyPayload EXCEPT !["name"] = name, !["voc"] = voc])
  /\ UNCHANGED server
  /\ UNCHANGED browser

PutModuleServed ==
  /\ pc = "awaiting"
  /\ op = "updateModule"
  /\ LET served == PutModule(mockDatabase, nextId, arg.moduleId, requests[1].body)
     IN  /\ updateModuleResume(served.settlement)
         /\ mockDatabase' = served.db
         /\ nextId' = served.nextId
  /\ UNCHANGED browser

StoreDeleteMultipleModules ==
  /\ Callable
  /\ \E moduleIds \in StoreIdLists : deleteMultipleModulesCall(moduleIds)
  /\ UNCHANGED server
  /\ UNCHANGED browser

\* The server answers one of the deletes in flight
DeleteModuleServed ==
  /\ pc = "awaiting"
  /\ op = "deleteMultipleModules"
  /\ \E i \in 1..Len(subcalls) :
       /\ subcalls[i].status = "pending"
       /\ LET served == DeleteModuleById(mockDatabase, nextId, arg[i])
          IN  /\ subcalls' = [subcalls EXCEPT
                                ![i] = deleteModuleResult(arg[i], served.settlement)]
              /\ mockDatabase' = served.db
              /\ nextId' = served.nextId
  /\ UNCHANGED <<pc, op, arg, requests, response, outcome, warned>>
  /\ UNCHANGED browser

StoreGetModuleById ==
  /\ Callable
  /\ \E moduleId \in StoreIds : getModuleByIdCall(moduleId)
  /\ UNCHANGED server
  /\ UNCHANGED browser

GetModuleServed ==
  /\ pc = "awaiting"
  /\ op = "getModuleById"
  /\ LET served == GetModule(mockDatabase, nextId, arg)
     IN  /\ getModuleByIdResume(served.settlement)
         /\ mockDatabase' = served.db
         /\ nextId' = served.nextId
  /\ UNCHANGED browser

StoreDeleteModule ==
  /\ Callable
  /\ \E moduleId \in StoreIds : deleteModuleCall(moduleId)
  /\ UNCHANGED server
  /\ UNCHANGED browser

\* The server answers a single deleteModule
DeleteServed ==
  /\ pc = "awaiting"
  /\ op = "deleteModule"
  /\ LET served == DeleteModuleById(mockDatabase, nextId, arg)
     IN  /\ deleteModuleResume(served.settlement)
         /\ mockDatabase' = served.db
         /\ nextId' = served.nextId
  /\ UNCHANGED browser

NextStore ==
  \/ StoreGetModuleById
  \/ GetModuleServed
  \/ StoreDeleteModule
  \/ DeleteServed
  \/ StoreCreateModule
  \/ PostModulesServed
  \/ StoreUpdateModule
  \/ PutModuleServed
  \/ StoreDeleteMultipleModules
  \/ DeleteModuleServed
  \/ deleteMultipleModulesSettled

StoreSpec == Init /\ [][NextStore]_vars

\* ------------------------------- single lookups and deletes, served or failed

\* The get of getModuleById fails in the transport
getModuleByIdFailed ==
  /\ pc = "awaiting"
  /\ op = "getModuleById"
  /\ \E error \in TransportFailures : getModuleByIdResume(RejectedWith(error))
  /\ UNCHANGED server
  /\ UNCHANGED browser

\* The delete of deleteModule fails in the transport
deleteModuleFailed ==
  /\ pc = "awaiting"
  /\ op = "deleteModule"
  /\ \E error \in TransportFailures : deleteModuleResume(RejectedWith(error))
  /\ UNCHANGED server
  /\ UNCHANGED browser

NextLookup ==
  \/ StoreGetModuleById
  \/ GetModuleServed
  \/ getModuleByIdFailed
  \/ StoreDeleteModule
  \/ DeleteServed
  \/ deleteModuleFailed

LookupSpec == Init /\ [][NextLookup]_vars

\* ------------------------------------------- rejections of any other shape

\* What a rejected call may hand to the catch block besides the transport's
\* own errors: a value without a message, with or without a response, and
\* errors whose message is any text
ForeignRejections ==
  {[response |-> FALSE, status |-> 0, detail |-> <<>>, message |-> NoMessage],
   [response |-> TRUE, status |-> 422, detail |-> <<>>, message |-> NoMessage],
   NetworkError(<<"connect", "ECONNREFUSED">>),
   NetworkError(<<"upstream:", "Temperature", "must", "be", "sent", "as", "JSON">>),
   NetworkError(<<"upstream:", "Invalid", "numeric", "values", "in", "header">>)}

getAllModulesRejected ==
  /\ pc = "awaiting"
  /\ op = "getAllModules"
  /\ \E error \in ForeignRejections : getAllModulesResume(RejectedWith(error))
  /\ UNCHANGED server
  /\ UNCHANGED browser

getModuleByIdRejected ==
  /\ pc = "awaiting"
  /\ op = "getModuleById"
  /\ \E error \in ForeignRejections : getModuleByIdResume(RejectedWith(error))
  /\ UNCHANGED server
  /\ UNCHANGED browser

createModuleRejected ==
  /\ pc = "awaiting"
  /\ op = "createModule"
  /\ \E error \in ForeignRejections : createModuleResume(RejectedWith(error))
  /\ UNCHANGED server
  /\ UNCHANGED browser

updateModuleRejected ==
  /\ pc = "awaiting"
  /\ op = "updateModule"
  /\ \E error \in ForeignRejections : updateModuleResume(RejectedWith(error))
  /\ UNCHANGED server
  /\ UNCHANGED browser

deleteModuleRejected ==
  /\ pc = "awaiting"
  /\ op = "deleteModule"
  /\ \E error \in ForeignRejections : deleteModuleResume(RejectedWith(error))
  /\ UNCHANGED server
  /\ UNCHANGED browser

simulateIVCurveRejected ==
  /\ pc = "awaiting"
  /\ op = "simulateIVCurve"
  /\ \E error \in ForeignRejections : simulateIVCurveResume(RejectedWith(error))
  /\ UNCHANGED server
  /\ UNCHANGED browser

NextAnyRejection ==
  \/ getAllModules
  \/ getAllModulesServed
  \/ getAllModulesFailed
  \/ getAllModulesRejected
  \/ StoreGetModuleById
  \/ GetModuleServed
  \/ getModuleByIdFailed
  \/ getModuleByIdRejected
  \/ createModule
  \/ createModuleSettled
  \/ createModuleRejected
  \/ updateModule
  \/ updateModuleSettled
  \/ updateModuleRejected
  \/ StoreDeleteModule
  \/ DeleteServed
  \/ deleteModuleFailed
  \/ deleteModuleRejected
  \/ simulateIVCurve
  \/ simulateIVCurveSettled
  \/ simulateIVCurveRejected

AnyRejectionSpec == Init /\ [][NextAnyRejection]_vars

\* ------------------------------------------------------ the simulation page

\* What the module selector hands to onModuleSelect: a listed module or null
SelectableModules == {JSNull} \cup {mockDatabase[i] : i \in 1..Len(mockDatabase)}

\* What the environmental form hands to onParametersChange
EnvironmentalInputs ==
  [temperature : {JSInt(25), JSInt(150)}, irradiance : {JSInt(1000)}]

NoModuleSelectedMessage == <<"No", "module", "selected", "for", "simulation">>

\* error.message || 'Failed to generate simulation'
SimulationErrorText(error) ==
  IF error.message = NoMessage \/ error.message = <<>>
    THEN <<"Failed", "to", "generate", "simulation">>
  ELSE error.message

\* s without its i-th element
RemoveAt(s, i) == SubSeq(s, 1, i - 1) \o SubSeq(s, i + 1, Len(s))

handleModuleSelect ==
  /\ \E module \in SelectableModules : selectedModule' = module
  /\ simulationData' = JSNull
  /\ simulationError' = JSNull
  /\ UNCHANGED <<environmentalParams, isSimulating, simulations>>
  /\ UNCHANGED <<call, server, authToken>>

handleEnvironmentalChange ==
  /\ \E params \in EnvironmentalInputs :
       environmentalParams' =
         (IF environmentalParams.temperature # params.temperature
             \/ environmentalParams.irradiance # params.irradiance
            THEN params ELSE environmentalParams)
  /\ UNCHANGED <<selectedModule, isSimulating, simulationData, simulationError, simulations>>
  /\ UNCHANGED <<call, server, authToken>>

\* handleSimulate up to the await inside simulateIVCurve, or to its end when
\* nothing is selected or simulateIVCurve throws before posting
handleSimulate ==
  /\ Len(simulations) < MaxInFlight
  /\ IF selectedModule = JSNull
       THEN /\ simulationError' = NoModuleSelectedMessage
            /\ UNCHANGED <<isSimulating, simulationData, simulations>>
     ELSE LET module_id == selectedModule["id"]
              temperature == environmentalParams.temperature
              irradiance == environmentalParams.irradiance
              thrown == simulateIVCurveValidate(module_id, temperature, irradiance)
          IN  /\ simulationData' = JSNull
              /\ IF thrown # <<>>
                   THEN /\ simulationError' =
                             SimulationErrorText(simulateIVCurveCatch(module_id, thrown[1]))
                        /\ isSimulating' = FALSE
                        /\ UNCHANGED simulations
                   ELSE /\ simulationError' = JSNull
                        /\ isSimulating' = TRUE
                        /\ simulations' =
                             Append(simulations,
                                    SimulationInput(module_id, temperature, irradiance))
  /\ UNCHANGED <<selectedModule, environmentalParams>>
  /\ UNCHANGED <<call, server, authToken>>

\* A simulation in flight is answered: handleSimulate resumes after its await
simulationResolved ==
  /\ \E i \in 1..Len(simulations) : \E data \in SimulationResponses(simulations[i]) :
       /\ simulationData' = data
       /\ simulations' = RemoveAt(simulations, i)
  /\ isSimulating' = FALSE
  /\ UNCHANGED <<selectedModule, environmentalParams, simulationError>>
  /\ UNCHANGED <<call, server, authToken>>

\* A simulation in flight fails: the catch and finally of handleSimulate
simulationRejected ==
  /\ \E i \in 1..Len(simulations) : \E error \in TransportFailures :
       /\ simulationError' =
            SimulationErrorText(simulateIVCurveCatch(simulations[i].module_id, error))
       /\ simulations' = RemoveAt(simulations, i)
  /\ isSimulating' = FALSE
  /\ UNCHANGED <<selectedModule, environmentalParams, simulationData>>
  /\ UNCHANGED <<call, server, authToken>>

NextPage ==
  \/ handleModuleSelect
  \/ handleEnvironmentalChange
  \/ handleSimulate
  \/ simulationResolved
  \/ simulationRejected

PageSpec == Init /\ [][NextPage]_vars

\* ------------------------------------------------------------------ claims
\* The rules as the specification words them, stated on the payload alone
\* and not through the code's checks.

IsPresent(v) == v # JSUndefined /\ v # JSNull /\ v # JSStr("")

IsRealNumber(v) == v.k \in {"int", "frac", "pinf", "ninf"}

\* v > 0
IsPositive(v) ==
  \/ (v.k = "int" /\ v.n >= 1)
  \/ (v.k = "frac" /\ v.n >= 0)
  \/ v.k = "pinf"

IsPositiveInteger(v) == v.k = "int" /\ v.n >= 1

\* lo <= v <= hi for integers lo, hi
IsWithin(v, lo, hi) ==
  \/ (v.k = "int" /\ lo <= v.n /\ v.n <= hi)
  \/ (v.k = "frac" /\ lo <= v.n /\ v.n + 1 <= hi)

InEnumeratedSet(v) ==
  v \in {JSStr(c) : c \in {"monoSi", "multiSi", "polySi", "cis", "cigs", "cdte", "amorphous"}}

NumericAttributes == {"voc", "isc", "vmp", "imp", "ns", "kv", "ki", "gamma_pmp"}

PositiveAttributes == {"voc", "isc", "vmp", "imp"}

\* Rule r of Create (1..5) is violated by payload p
CreateRuleViolated(r, p) ==
  CASE r = 1 -> \E f \in Fields : ~IsPresent(p[f])
    [] r = 2 -> \E f \in NumericAttributes : ~IsRealNumber(p[f])
    [] r = 3 -> \E f \in PositiveAttributes : ~IsPositive(p[f])
    [] r = 4 -> ~IsPositiveInteger(p["ns"])
    [] OTHER -> ~InEnumeratedSet(p["celltype"])

CreateViolatedRules(p) == {r \in 1..5 : CreateRuleViolated(r, p)}

FirstViolated(p) ==
  CHOOSE r \in CreateViolatedRules(p) : \A q \in CreateViolatedRules(p) : r <= q

StartsWith(text, prefix) ==
  Len(text) >= Len(prefix) /\ SubSeq(text, 1, Len(prefix)) = prefix

\* The opening words of the message of rule r
RulePrefix(r) ==
  CASE r = 1 -> <<"Missing", "required", "fields", ":">>
    [] r = 2 -> <<"Invalid", "numeric", "values", "for", ":">>
    [] r = 3 -> <<"Values", "must", "be", "positive", "for", ":">>
    [] r = 4 -> <<"Number", "of", "cells", "in", "series", "(ns)", "must", "be",
                  "a", "positive", "integer.">>
    [] OTHER -> <<"Invalid", "celltype.", "Must", "be", "one", "of", ":">>

\* text is `prefix` followed by exactly the names of `wanted`, comma-joined,
\* in the order `order` lists them
ListsExactly(text, prefix, wanted, order) ==
  LET rest == SubSeq(text, Len(prefix) + 1, Len(text))
      Pos(name) == CHOOSE i \in 1..Len(order) : order[i] = name
  IN  /\ StartsWith(text, prefix)
      /\ Len(rest) = 2 * Cardinality(wanted) - 1
      /\ \A i \in 1..Len(rest) : i % 2 = 0 => rest[i] = ","
      /\ {rest[i] : i \in {j \in 1..Len(rest) : j % 2 = 1}} = wanted
      /\ \A i, j \in 1..Len(rest) :
           (i % 2 = 1 /\ j % 2 = 1 /\ i < j) => Pos(rest[i]) < Pos(rest[j])

AttributeOrder ==
  <<"name", "voc", "isc", "vmp", "imp", "ns", "kv", "ki", "celltype", "gamma_pmp">>

CreateFailedLocally ==
  op = "createModule" /\ pc = "done" /\ requests = <<>> /\ outcome.kind = "threw"

C3_PositiveFieldsListed ==
  (op = "createModule" /\ ~CreateRuleViolated(1, arg) /\ ~CreateRuleViolated(2, arg)) =>
     /\ (\E f \in PositiveAttributes : ~IsPositive(arg[f])) =>
           /\ CreateFailedLocally
           /\ ListsExactly(outcome.message,
                           <<"Values", "must", "be", "positive", "for", ":">>,
                           {f \in PositiveAttributes : ~IsPositive(arg[f])},
                           AttributeOrder)
     /\ (\A f \in PositiveAttributes : IsPositive(arg[f])) =>
           ~(outcome.kind = "threw"
             /\ StartsWith(outcome.message, <<"Values", "must", "be", "positive">>))

\* voc was zero and kv negative: only voc was listed.
C3_Witness ==
  /\ CreateFailedLocally
  /\ arg["voc"] = JSInt(0)
  /\ arg["kv"] = JSInt(-1)
  /\ outcome.message = <<"Values", "must", "be", "positive", "for", ":", "voc">>

\* C4: a Create payload satisfying rules 1-4 whose celltype is outside the
\* enumerated set fails with the celltype message listing the allowed set.
C4_CelltypeMessageReachesCaller ==
  (op = "createModule" /\ pc = "done" /\ CreateViolatedRules(arg) = {5}) =>
     /\ outcome.kind = "threw"
     /\ outcome.message =
          <<"Invalid", "celltype.", "Must", "be", "one", "of", ":",
            "monoSi", ",", "multiSi", ",", "polySi", ",", "cis", ",", "cigs", ",",
            "cdte", ",", "amorphous">>

IsSupplied(v) == v # JSUndefined

\* partialData violates a rule Update checks on the attributes it holds
UpdateViolatesRule(d) ==
  \/ \E f \in NumericAttributes : IsSupplied(d[f]) /\ ~IsRealNumber(d[f])
  \/ \E f \in PositiveAttributes : IsSupplied(d[f]) /\ ~IsPositive(d[f])
  \/ (IsSupplied(d["ns"]) /\ ~IsPositiveInteger(d["ns"]))
  \/ (IsSupplied(d["celltype"]) /\ ~InEnumeratedSet(d["celltype"]))

ModuleIdRuleViolated(a) == ~IsPositiveInteger(a.module_id)

TemperatureRuleViolated(a) ==
  IsSupplied(a.temperature) /\ ~IsWithin(a.temperature, -40, 85)

IrradianceRuleViolated(a) ==
  IsSupplied(a.irradiance) /\ ~IsWithin(a.irradiance, 0, 1500)

SimulateViolatesRule(a) ==
  ModuleIdRuleViolated(a) \/ TemperatureRuleViolated(a) \/ IrradianceRuleViolated(a)

\* The input of the call in progress violates a rule its operation checks
\* locally (for Update: the numeric, positivity, ns and celltype rules on the
\* attributes supplied)
ViolatesLocalRule ==
  CASE op = "createModule" -> CreateViolatedRules(arg) # {}
    [] op = "updateModule" -> UpdateViolatesRule(arg.updateData)
    [] op = "simulateIVCurve" -> SimulateViolatesRule(arg)
    [] OTHER -> FALSE

FulfilledIndices == {i \in 1..Len(subcalls) : subcalls[i].status = "fulfilled"}

\* The k-th fulfilled index in input order
NthFulfilled(k) ==
  CHOOSE i \in FulfilledIndices : Cardinality({j \in FulfilledIndices : j < i}) = k - 1

\* C6: DeleteMany never raises; it returns exactly the confirmation strings
\* of the ids whose delete succeeded, in input order, whatever the other ids
\* did, and the empty sequence when every id failed.
C6_DeleteManyPartialSuccess ==
  (op = "deleteMultipleModules") =>
     /\ outcome.kind # "threw"
     /\ pc = "done" =>
          /\ outcome.kind = "returned"
          /\ Len(outcome.value) = Cardinality(FulfilledIndices)
          /\ \A k \in 1..Len(outcome.value) :
               outcome.value[k] = subcalls[NthFulfilled(k)].value

\* The first of three deletes failed and the two after it are reported.
C6_Witness ==
  /\ op = "deleteMultipleModules"
  /\ pc = "done"
  /\ Len(arg) = 3
  /\ subcalls[1].status = "rejected"
  /\ outcome.value = <<subcalls[2].value, subcalls[3].value>>
  /\ subcalls[2].value # subcalls[3].value

\* C7: DeleteMany hands exactly one delete per input id to the transport,
\* all of them before any outcome is awaited, and returns only once every
\* one of them has completed, under every order of the responses.
C7_DeleteManySettleAllJoin ==
  (op = "deleteMultipleModules") =>
     /\ Len(requests) = Len(arg)
     /\ \A i \in 1..Len(arg) :
          /\ requests[i].method = "DELETE"
          /\ requests[i].url = <<"/modules/", ToString(arg[i])>>
     /\ Len(subcalls) = Len(arg)
     /\ pc = "done" => \A i \in 1..Len(arg) : subcalls[i].status # "pending"

\* A sibling completed successfully after an earlier id had failed.
C7_Witness ==
  /\ op = "deleteMultipleModules"
  /\ pc = "done"
  /\ Len(arg) = 3
  /\ subcalls[1].status = "rejected"
  /\ subcalls[2].status = "fulfilled"
  /\ subcalls[3].status = "rejected"

\* C8: DeleteMany of the empty list returns the empty sequence and issues
\* no transport call.
C8_DeleteManyEmpty ==
  (op = "deleteMultipleModules" /\ arg = <<>>) =>
     /\ requests = <<>>
     /\ pc = "done" => outcome = [kind |-> "returned", message |-> <<>>, value |-> <<>>]

C8_Witness ==
  op = "deleteMultipleModules" /\ arg = <<>> /\ pc = "done" /\ outcome.kind = "returned"

\* C9: Simulate rejects locally exactly when module_id is no positive
\* integer, or a supplied temperature is non-numeric or outside [-40, 85],
\* or a supplied irradiance is non-numeric or outside [0, 1500] (bounds
\* included, omitted values never rejected), with the dedicated message of
\* the first violated rule in the order module_id, temperature, irradiance.
C9_SimulateLocalValidation ==
  (op = "simulateIVCurve") =>
     LET rejected == pc = "done" /\ requests = <<>> /\ outcome.kind = "threw"
     IN  /\ rejected <=> SimulateViolatesRule(arg)
         /\ ModuleIdRuleViolated(arg) =>
              outcome.message = <<"Module", "ID", "must", "be", "a", "positive", "integer.">>
         /\ (~ModuleIdRuleViolated(arg) /\ TemperatureRuleViolated(arg)) =>
              outcome.message =
                (IF IsRealNumber(arg.temperature)
                   THEN <<"Temperature", "must", "be", "between", "-40C", "and", "85C.">>
                   ELSE <<"Temperature", "must", "be", "a", "valid", "number.">>)
         /\ (~ModuleIdRuleViolated(arg) /\ ~TemperatureRuleViolated(arg)
               /\ IrradianceRuleViolated(arg)) =>
              outcome.message =
                (IF IsRealNumber(arg.irradiance)
                   THEN <<"Irradiance", "must", "be", "between", "0", "and", "1500", "W/m2.">>
                   ELSE <<"Irradiance", "must", "be", "a", "valid", "number.">>)

\* Temperature 85 and irradiance 0 were accepted and dispatched.
C9_Witness ==
  /\ op = "simulateIVCurve"
  /\ arg.temperature = JSInt(85)
  /\ arg.irradiance = JSInt(0)
  /\ Len(requests) = 1

\* C10: the dispatched Simulate body has use_environmental_conditions true
\* iff temperature or irradiance was supplied, and carries module_id,
\* temperature and irradiance as given, an omitted value staying omitted.
C10_SimulationRequestBody ==
  (op = "simulateIVCurve" /\ requests # <<>>) =>
     /\ requests[1].method = "POST"
     /\ requests[1].url = <<"/simulate_iv_curve/">>
     /\ requests[1].body.use_environmental_conditions =
          (IsSupplied(arg.temperature) \/ IsSupplied(arg.irradiance))
     /\ requests[1].body.module_id = arg.module_id
     /\ requests[1].body.temperature = arg.temperature
     /\ requests[1].body.irradiance = arg.irradiance

\* Only the irradiance was supplied: the flag is set, temperature is absent.
C10_Witness ==
  /\ op = "simulateIVCurve"
  /\ requests # <<>>
  /\ arg.temperature = JSUndefined
  /\ arg.irradiance = JSInt(1000)
  /\ requests[1].body.use_environmental_conditions
  /\ requests[1].body.temperature = JSUndefined

\* ------------------------------------------------- transport failures

\* The awaited request was rejected by the transport
TransportFailed == pc = "done" /\ response.kind = "rejected"

\* The server answered with this error status
AnsweredWith(code) == response.error.response /\ response.status = code

\* C11: a dispatched Simulate call that fails raises an error fixed by the
\* transport outcome: 404 gives 'PV module with ID <module_id> not found.',
\* 500 gives 'Simulation error: ' followed by the server's detail string, any
\* other status and a failure without response give the generic message.
C11_SimulateFailureMapping ==
  (op = "simulateIVCurve" /\ TransportFailed) =>
     /\ outcome.kind = "threw"
     /\ AnsweredWith(404) =>
          outcome.message =
            <<"PV", "module", "with", "ID", ToString(arg.module_id.n), "not", "found.">>
     /\ (AnsweredWith(500) /\ response.error.detail # <<>>) =>
          outcome.message = <<"Simulation", "error", ":">> \o response.error.detail
     /\ (~AnsweredWith(404) /\ ~AnsweredWith(500)) =>
          outcome.message =
            <<"Failed", "to", "generate", "IV", "curve", "simulation.",
              "Please", "try", "again.">>

\* The server answered 500 with a detail string, which the caller received.
C11_Witness ==
  /\ op = "simulateIVCurve"
  /\ TransportFailed
  /\ AnsweredWith(500)
  /\ response.error.detail # <<>>
  /\ Includes(outcome.message, response.error.detail)

\* ---------------------------------------------- the simulation call's states

SimIdle == pc = "idle"
SimDispatching == pc = "awaiting" /\ outcome.kind = "none"
SimValidationFailed == pc = "done" /\ requests = <<>> /\ outcome.kind = "threw"
SimSucceeded == pc = "done" /\ requests # <<>> /\ outcome.kind = "returned"
SimFailed == pc = "done" /\ requests # <<>> /\ outcome.kind = "threw"
SimTerminal == SimValidationFailed \/ SimSucceeded \/ SimFailed

\* A step of the state machine; validating happens within the first step
SimStep ==
  \/ SimIdle /\ SimValidationFailed' /\ requests' = <<>>
  \/ SimIdle /\ SimDispatching' /\ Len(requests') = 1
  \/ SimDispatching /\ (SimSucceeded' \/ SimFailed') /\ requests' = requests

\* C12: a Simulate invocation goes Idle -> Validating -> (ValidationFailed |
\* Dispatching -> (Succeeded | Failed)); it always ends in exactly one of the
\* three terminal outcomes, issues at most one transport call, and nothing
\* follows a terminal outcome (no retry after a failure).
C12_SimulateStateMachine ==
  /\ [](SimIdle \/ SimDispatching \/ SimTerminal)
  /\ [](Len(requests) <= 1)
  /\ [](~(SimValidationFailed /\ SimSucceeded) /\ ~(SimValidationFailed /\ SimFailed)
          /\ ~(SimSucceeded /\ SimFailed))
  /\ [][SimStep]_vars
  /\ [](op = "simulateIVCurve" => <>SimTerminal)

\* A dispatched call failed: one request was issued and the call is over.
C12_Witness ==
  /\ op = "simulateIVCurve"
  /\ SimFailed
  /\ Len(requests) = 1
  /\ response.kind = "rejected"

\* C13: a Create request the server rejects with status 400 raises the
\* server's detail string verbatim; every other transport failure of a
\* dispatched Create (other status, no response) raises the generic
\* 'Failed to create PV module. Please check your input and try again.'
C13_CreateFailureMapping ==
  (op = "createModule" /\ TransportFailed) =>
     /\ outcome.kind = "threw"
     /\ (AnsweredWith(400) /\ response.error.detail # <<>>) =>
          outcome.message = response.error.detail
     /\ ~AnsweredWith(400) =>
          outcome.message =
            <<"Failed", "to", "create", "PV", "module.", "Please", "check",
              "your", "input", "and", "try", "again.">>

\* The server refused a duplicate name with 400 and the caller got its text.
C13_Witness ==
  /\ op = "createModule"
  /\ TransportFailed
  /\ AnsweredWith(400)
  /\ outcome.message = <<"Module", "with", "this", "name", "already", "exists">>

\* ------------------------------------------------------- Update's rules

\* Attribute f of partialData is supplied and violates the Create rule for f
ViolatesCreateRuleFor(f, d) ==
  /\ IsSupplied(d[f])
  /\ \/ ~IsPresent(d[f])
     \/ (f \in NumericAttributes /\ ~IsRealNumber(d[f]))
     \/ (f \in PositiveAttributes /\ ~IsPositive(d[f]))
     \/ (f = "ns" /\ ~IsPositiveInteger(d[f]))
     \/ (f = "celltype" /\ ~InEnumeratedSet(d[f]))

UpdateFailedLocally ==
  op = "updateModule" /\ pc = "done" /\ requests = <<>> /\ outcome.kind = "threw"

\* C14: an Update is rejected locally if and only if some attribute present in
\* partialData violates the Create rule for that attribute, the
\* present-and-non-empty rule included (name supplied as the empty string);
\* an absent attribute never causes a rejection.
C14_UpdateSameRulesAsCreate ==
  (op = "updateModule") =>
     (UpdateFailedLocally <=> \E f \in Fields : ViolatesCreateRuleFor(f, arg.updateData))

\* C15: an Update that fails local validation raises the message of the rule
\* it violated: 'Invalid numeric values for: ...', 'Values must be positive
\* for: ...', the ns message or, for a supplied celltype outside the enumerated
\* set, the celltype message listing the allowed set; never the generic
\* 'Failed to update PV module. Please try again.'
C15_UpdateValidationMessageReachesCaller ==
  UpdateFailedLocally =>
     LET d == arg.updateData
         numeric == \E f \in NumericAttributes : IsSupplied(d[f]) /\ ~IsRealNumber(d[f])
         positive == \E f \in PositiveAttributes : IsSupplied(d[f]) /\ ~IsPositive(d[f])
         cells == IsSupplied(d["ns"]) /\ ~IsPositiveInteger(d["ns"])
         celltype == IsSupplied(d["celltype"]) /\ ~InEnumeratedSet(d["celltype"])
     IN  /\ outcome.message #
              <<"Failed", "to", "update", "PV", "module.", "Please", "try", "again.">>
         /\ numeric => StartsWith(outcome.message, RulePrefix(2))
         /\ (~numeric /\ positive) => StartsWith(outcome.message, RulePrefix(3))
         /\ (~numeric /\ ~positive /\ cells) => outcome.message = RulePrefix(4)
         /\ (~numeric /\ ~positive /\ ~cells /\ celltype) =>
              outcome.message =
                <<"Invalid", "celltype.", "Must", "be", "one", "of", ":",
                  "monoSi", ",", "multiSi", ",", "polySi", ",", "cis", ",", "cigs", ",",
                  "cdte", ",", "amorphous">>

\* C16: an Update that passed local validation and fails raises an error
\* fixed by the transport outcome: 404 gives 'PV module with ID <id> not
\* found.', 400 gives the server's detail string verbatim, every other
\* failure gives 'Failed to update PV module. Please try again.'
C16_UpdateFailureMapping ==
  (op = "updateModule" /\ TransportFailed) =>
     /\ outcome.kind = "threw"
     /\ AnsweredWith(404) =>
          outcome.message =
            <<"PV", "module", "with", "ID", ToString(arg.moduleId), "not", "found.">>
     /\ (AnsweredWith(400) /\ response.error.detail # <<>>) =>
          outcome.message = response.error.detail
     /\ (~AnsweredWith(404) /\ ~AnsweredWith(400)) =>
          outcome.message =
            <<"Failed", "to", "update", "PV", "module.", "Please", "try", "again.">>

\* The server did not know id 2 and the caller was told so.
C16_Witness ==
  /\ op = "updateModule"
  /\ TransportFailed
  /\ AnsweredWith(404)
  /\ arg.moduleId = 2
  /\ outcome.message = <<"PV", "module", "with", "ID", "2", "not", "found.">>

\* ------------------------------------------------------------ name checks

EqualIgnoringCase(a, b) ==
  a.k = "string" /\ b.k = "string" /\ ToLowerCase(a.s) = ToLowerCase(b.s)

\* Some stored record other than excludeId bears the name, ignoring case
StoredUnderName(name, excludeId) ==
  \E i \in 1..Len(mockDatabase) :
    /\ EqualIgnoringCase(mockDatabase[i]["name"], name)
    /\ mockDatabase[i]["id"] # excludeId

\* C17: NameExists(name, excludeId?) returns true if and only if some record
\* stored on the server has a name equal to `name` ignoring case and an id
\* different from excludeId (none excluded when omitted), whatever the size
\* of the stored collection.
C17_NameExistsIffStored ==
  (op = "checkModuleNameExists" /\ pc = "done" /\ response.kind = "resolved") =>
     outcome = Returned(StoredUnderName(arg.name, arg.excludeId))

\* C18: NameExists fails open: when the listing call fails, with an error
\* status or without a response, it does not raise and returns false.
C18_NameExistsFailsOpen ==
  (op = "checkModuleNameExists" /\ TransportFailed) => outcome = Returned(FALSE)

\* The listing failed while a record of that name was stored: false came back.
C18_Witness ==
  /\ op = "checkModuleNameExists"
  /\ TransportFailed
  /\ StoredUnderName(arg.name, arg.excludeId)
  /\ outcome.kind = "returned"
  /\ outcome.value = FALSE

\* -------------------------------------------------------- stored records

\* C19: after any sequence of Create, Update, Delete and DeleteMany calls
\* served by the server, no two stored records have names that are equal
\* ignoring case.
C19_StoredNamesUnique ==
  \A i, j \in 1..Len(mockDatabase) :
    i # j => ToLowerCase(mockDatabase[i]["name"].s) # ToLowerCase(mockDatabase[j]["name"].s)

\* A stored record satisfies the record invariants
RecordInvariants(m) ==
  /\ \A f \in PositiveAttributes : IsRealNumber(m[f]) /\ IsPositive(m[f])
  /\ IsPositiveInteger(m["ns"])
  /\ InEnumeratedSet(m["celltype"])
  /\ m["name"].k = "string"
  /\ m["name"].s # ""

\* C20: after any sequence of successful Create and Update calls every
\* stored record has voc, isc, vmp, imp > 0, a positive integer ns, a
\* celltype of the enumerated set and a non-empty name.
C20_StoredRecordsValid ==
  \A i \in 1..Len(mockDatabase) : RecordInvariants(mockDatabase[i])

\* ------------------------------------------------------ renaming a record

\* The stored record with this id exists
IsStored(id) == \E i \in 1..Len(mockDatabase) : mockDatabase[i]["id"] = JSInt(id)

\* The server answers the Update in flight in this step
UpdateAnswered == pc = "awaiting" /\ op = "updateModule" /\ pc' = "done"

ConflictMessage == <<"Module", "with", "this", "name", "already", "exists">>

\* C21: Update(id, {name: X}) of a stored id fails with the server's conflict
\* message whenever X equals, ignoring case, the name of a different stored
\* record, and then leaves the store unchanged; when no different record
\* bears X (X being the record's own name in any letter case) it never fails
\* with the conflict message.
C21_RenameConflict ==
  [][(UpdateAnswered /\ IsStored(arg.moduleId) /\ IsSupplied(arg.updateData["name"])) =>
       IF StoredUnderName(arg.updateData["name"], JSInt(arg.moduleId))
         THEN /\ outcome'.kind = "threw"
              /\ outcome'.message = ConflictMessage
              /\ mockDatabase' = mockDatabase
         ELSE outcome'.message # ConflictMessage]_vars

\* ------------------------------------------------------ create, then fetch

IsFiniteNumber(v) == v.k \in {"int", "frac"}

\* A payload that satisfies the rules of a PVModuleRecord
ValidCreatePayload(p) ==
  /\ p["name"].k = "string" /\ p["name"].s # ""
  /\ \A f \in NumericAttributes : IsFiniteNumber(p[f])
  /\ \A f \in PositiveAttributes : IsPositive(p[f])
  /\ IsPositiveInteger(p["ns"])
  /\ InEnumeratedSet(p["celltype"])

StoredIds == {mockDatabase[i]["id"] : i \in 1..Len(mockDatabase)}

\* The stored records of this id in store db
StoredAs(db, id) == {db[i] : i \in {j \in 1..Len(db) : db[j]["id"] = id}}

\* The server answers the Create / the GetById in flight in this step
CreateAnswered == pc = "awaiting" /\ op = "createModule" /\ pc' = "done"
GetAnswered == pc = "awaiting" /\ op = "getModuleById" /\ pc' = "done"

\* GetById(created.id) is issued right after a Create has returned `created`
GetFollowsCreate ==
  /\ op = "createModule" /\ pc = "done" /\ outcome.kind = "returned"
  /\ op' = "getModuleById"
  /\ JSInt(arg') = outcome.value["id"]

C23_UpdateFrame ==
  [][(UpdateAnswered /\ outcome'.kind = "returned") =>
       /\ Len(mockDatabase') = Len(mockDatabase)
       /\ \A i \in 1..Len(mockDatabase) :
            IF mockDatabase[i]["id"] = JSInt(arg.moduleId)
              THEN /\ mockDatabase'[i]["id"] = mockDatabase[i]["id"]
                   /\ outcome'.value["id"] = mockDatabase[i]["id"]
                   /\ \A f \in Fields :
                        ~IsSupplied(arg.updateData[f]) =>
                           /\ mockDatabase'[i][f] = mockDatabase[i][f]
                           /\ outcome'.value[f] = mockDatabase[i][f]
              ELSE mockDatabase'[i] = mockDatabase[i]]_vars

\* Only voc was supplied: record 1 came back with the new voc and its old name.
C23_Witness ==
  /\ op = "updateModule"
  /\ pc = "done"
  /\ outcome.kind = "returned"
  /\ arg.moduleId = 1
  /\ arg.updateData["name"] = JSUndefined
  /\ arg.updateData["voc"] = JSInt(50)
  /\ outcome.value["voc"] = JSInt(50)
  /\ outcome.value["name"] = JSStr("Test Solar Panel")

\* ------------------------------------------------------ transport adapter

\* A credential is stored: localStorage holds a non-empty token
CredentialStored == authToken.k = "string" /\ authToken.s # ""

\* A request leaves / a failed response arrives in this step
RequestSent == op' = "api" /\ pc # "awaiting" /\ pc' = "awaiting"
ResponseFailed ==
  op = "api" /\ pc = "awaiting" /\ pc' = "done" /\ response'.kind = "rejected"

\* C24: an outbound request carries 'Authorization: Bearer <token>' if and
\* only if a credential is stored at the moment it is sent; without a
\* credential the request is sent all the same, with no Authorization header.
C24_BearerIffCredential ==
  [][RequestSent =>
       /\ Len(requests') = 1
       /\ requests'[1].method = arg'
       /\ IF CredentialStored
            THEN requests'[1].headers.Authorization = <<"Bearer", authToken.s>>
            ELSE requests'[1].headers.Authorization = NoHeader]_vars

\* A request left with the stored token in its header.
C24_Witness ==
  /\ op = "api"
  /\ pc = "awaiting"
  /\ authToken = JSStr("test-jwt-token")
  /\ requests[1].headers.Authorization = <<"Bearer", "test-jwt-token">>

C26_GetByIdMapping ==
  /\ [](op = "getModuleById" /\ pc = "done" =>
          IF response.kind = "resolved"
            THEN outcome.kind = "returned" /\ outcome.value = response.data
          ELSE /\ outcome.kind = "threw"
               /\ outcome.message =
                    (IF AnsweredWith(404)
                       THEN <<"PV", "module", "with", "ID", ToString(arg), "not", "found.">>
                     ELSE <<"Failed", "to", "load", "PV", "module.", "Please", "try", "again.">>))
  /\ [][GetAnswered /\ outcome'.kind = "returned" =>
          outcome'.value \in StoredAs(mockDatabase, JSInt(arg))]_vars

\* GetById failed on a status other than 404 with the generic message.
C26_Witness ==
  /\ op = "getModuleById"
  /\ TransportFailed
  /\ AnsweredWith(500)
  /\ outcome.message = <<"Failed", "to", "load", "PV", "module.", "Please", "try", "again.">>

\* The Delete / the GetById in flight completes in this step
DeleteAnswered == pc = "awaiting" /\ op = "deleteModule" /\ pc' = "done"

\* C27: Delete(id) returns the server's confirmation string on success, fails
\* with 'PV module with ID <id> not found.' exactly when the transport
\* reports status 404, the store being unchanged, and with 'Failed to delete
\* PV module. Please try again.' for every other failure; after a successful
\* Delete(id) the id is gone, and GetById of an id that is gone never
\* succeeds and fails with not-found when answered 404.
C27_DeleteMapping ==
  /\ [](op = "deleteModule" /\ pc = "done" =>
          IF response.kind = "resolved"
            THEN outcome.kind = "returned" /\ outcome.value = response.data.detail
          ELSE /\ outcome.kind = "threw"
               /\ outcome.message =
                    (IF AnsweredWith(404)
                       THEN <<"PV", "module", "with", "ID", ToString(arg), "not", "found.">>
                     ELSE <<"Failed", "to", "delete", "PV", "module.", "Please", "try", "again.">>))
  /\ [][DeleteAnswered /\ outcome'.kind = "threw" => mockDatabase' = mockDatabase]_vars
  /\ [][DeleteAnswered /\ outcome'.kind = "returned" =>
          /\ IsStored(arg)
          /\ ~IsStored(arg)'
          /\ \A id \in StoreIds \ {arg} : IsStored(id)' = IsStored(id)]_vars
  /\ [][GetAnswered /\ ~IsStored(arg) =>
          /\ outcome'.kind = "threw"
          /\ (response'.error.response /\ response'.status = 404 =>
                outcome'.message = <<"PV", "module", "with", "ID", ToString(arg), "not", "found.">>)]_vars

\* GetById of an id of the initial store failed with not-found: the id was
\* deleted before.
C27_Witness ==
  /\ op = "getModuleById"
  /\ pc = "done"
  /\ arg = 2
  /\ ~IsStored(2)
  /\ IsStored(1)
  /\ response.kind = "rejected"
  /\ response.error.detail = <<"Module", "not", "found">>
  /\ outcome.message = <<"PV", "module", "with", "ID", "2", "not", "found.">>

\* --------------------------------------------------------------------- List

\* A List call starts in this step
ListCalled == op' = "getAllModules" /\ pc # "awaiting" /\ pc' = "awaiting"

\* C28: List(skip?, limit?) sends exactly the pagination parameters the
\* caller supplied (none when both are omitted), issues one transport call
\* for every invocation, and on any transport failure raises 'Failed to load
\* PV modules. Please try again.' whatever the cause.
C28_ListRequestAndFailure ==
  /\ [][ListCalled =>
          /\ Len(requests') = 1
          /\ requests'[1].method = "GET"
          /\ requests'[1].url = <<"/modules">>
          /\ \A k \in {"skip", "limit"} : requests'[1].params[k] = arg'[k]]_vars
  /\ [](op = "getAllModules" /\ pc = "done" =>
          IF response.kind = "resolved"
            THEN outcome.kind = "returned" /\ outcome.value = response.data
          ELSE /\ outcome.kind = "threw"
               /\ outcome.message =
                    <<"Failed", "to", "load", "PV", "modules.", "Please", "try", "again.">>)

\* A List with skip 0 and no limit was sent with exactly skip = 0 and failed
\* without a response.
C28_Witness ==
  /\ op = "getAllModules"
  /\ TransportFailed
  /\ ~response.error.response
  /\ arg = [skip |-> JSInt(0), limit |-> JSUndefined]
  /\ requests = <<[method |-> "GET", url |-> <<"/modules">>, body |-> NoBody,
                   params |-> [skip |-> JSInt(0), limit |-> JSUndefined]]>>
  /\ outcome.message = <<"Failed", "to", "load", "PV", "modules.", "Please", "try", "again.">>

\* ------------------------------------------------------- no leaked detail

\* The messages an operation may raise when its transport call failed: the
\* not-found message with the id, the server detail on 400, 'Simulation
\* error: <detail>' on 500, and the operation's generic message
OwnFailureMessages ==
  LET detailOr(dflt) == IF response.error.detail # <<>> THEN response.error.detail ELSE dflt
      badRequest == IF AnsweredWith(400) THEN {detailOr(<<"Bad", "request">>)} ELSE {}
      simulation == IF AnsweredWith(500)
                      THEN {<<"Simulation", "error", ":">> \o detailOr(<<"Simulation", "failed">>)}
                    ELSE {}
  IN  CASE op = "getAllModules" -> {ListGenericMessage}
        [] op = "getModuleById" -> {NotFoundMessage(arg), LoadGenericMessage}
        [] op = "createModule" -> badRequest \cup {CreateGenericMessage}
        [] op = "updateModule" ->
             {NotFoundMessage(arg.moduleId), UpdateGenericMessage} \cup badRequest
        [] op = "deleteModule" -> {NotFoundMessage(arg), DeleteGenericMessage}
        [] op = "simulateIVCurve" ->
             {NotFoundMessage(arg.module_id.n), SimulateGenericMessage} \cup simulation

\* C29: every error raised by List, GetById, Create, Update, Delete or
\* Simulate after its transport call failed carries one of that operation's
\* own messages, whatever the message or shape of the failure, a failure
\* without a message and one whose message contains a validation phrase
\* included.
C29_NoTransportDetail ==
  TransportFailed => outcome.kind = "threw" /\ outcome.message \in OwnFailureMessages

\* ---------------------------------------------------------- simulation page

\* The charts show simulationData: no error, a module selected, data present
ResultDisplayed ==
  simulationError = JSNull /\ selectedModule # JSNull /\ simulationData # JSNull

\* C30: on the simulation page a displayed simulation result always belongs
\* to the currently selected module (its module_id equals the selected
\* module's id), whatever the interleaving of selections and responses, and
\* isSimulating is false whenever no simulation call is in flight.
C30_ResultOfSelectedModule ==
  /\ ResultDisplayed => simulationData.module_id = selectedModule["id"]
  /\ simulations = <<>> => ~isSimulating

====
